---- MODULE Spec2Model ----
(***************************************************************************)
(* dynamic-struct: the derive macro `Dynamic` (src/src/lib.rs) and the     *)
(* code it generates, executed on one record instance.                     *)
(*                                                                         *)
(* Build time: derive_dynamic turns a struct (shape, named fields, their   *)
(* `dynamic` attributes, the struct-level naming attribute) into an impl   *)
(* block of updated_ / setter / update_ methods.                           *)
(* Run time: the generated methods are plain synchronous calls; they are   *)
(* executed here statement by statement on an explicit call stack.         *)
(***************************************************************************)
EXTENDS Integers, Sequences, FiniteSets, TLC

VARIABLES
    shape,      \* kind of item the derive is attached to
    fields,     \* the struct's named fields, in declaration order
    config,     \* the struct-level #[dynamic(...)] attribute (six Option<LitStr>)
    methods,    \* the user's compute methods (the hand-written impl block)
    phase,      \* "input" before macro expansion, "expanded" after
    gen,        \* what derive_dynamic produced
    val,        \* the record instance: field name -> u32 value
    stack,      \* run-time call stack of generated methods
    runs,       \* per field: compute-procedure runs during the current root call
    hist,       \* root calls made on the instance so far, oldest first
    budget,     \* root calls the driver program still makes
    argvals,    \* values the driver program passes to setters
    crashed     \* the process died of stack exhaustion

vars == <<shape, fields, config, methods, phase, gen, val, stack, runs, hist,
          budget, argvals, crashed>>

---------------------------------------------------------------------------
(* Bounds of the model. *)

\* longest dependency list of one #[dynamic((...), m)] attribute
MaxDeps == 2
\* root calls the driver makes on a record of the general family
MaxCalls == 2
\* call-stack frames available before the process dies of stack exhaustion
MaxDepth == 7

---------------------------------------------------------------------------
(* Small helpers. *)

Range(s) == { s[i] : i \in DOMAIN s }

\* all sequences over S of length at most n
SeqsUpTo(S, n) == UNION { [1..k -> S] : k \in 0..n }

\* every order in which the elements of the finite set S can be iterated
Orders(S) == { s \in [1..Cardinality(S) -> S] : Range(s) = S }

RECURSIVE SumOver(_, _)
SumOver(S, v) ==
    IF S = {} THEN 0
    ELSE LET x == CHOOSE y \in S : TRUE IN v[x] + SumOver(S \ {x}, v)

\* Option<T>: None is <<>>, Some(x) is <<x>>
None == <<>>
Some(x) == <<x>>

---------------------------------------------------------------------------
(* Naming: lib.rs 166-232. *)

DEFAULT_UPDATED_METHOD_PREFIX == "updated_"
DEFAULT_UPDATED_METHOD_SUFFIX == ""

\* the update prefix given the text of the updated prefix
UPDATE_PREFIX_AS_UPDATED == "updated_"

DEFAULT_UPDATE_METHOD_PREFIX == "update_"
DEFAULT_UPDATE_METHOD_SUFFIX == ""

DEFAULT_SETTER_METHOD_PREFIX == "update_"
DEFAULT_SETTER_METHOD_SUFFIX == ""

\* Dynamic::default(): every override unset
DefaultConfig ==
    [ updated_prefix |-> None, updated_suffix |-> None,
      setter_prefix  |-> None, setter_suffix  |-> None,
      update_prefix  |-> None, update_suffix  |-> None ]

\* format_ident!("{}{}{}", prefix, ident, suffix)
create_ident(ident, prefix, suffix) == prefix \o ident \o suffix

\* opt.as_ref().map(|p| p.value()).unwrap_or_else(|| default.to_string())
value_or(opt, default) == IF opt = None THEN default ELSE opt[1]

updated_method_prefix(cfg) == value_or(cfg.updated_prefix, DEFAULT_UPDATED_METHOD_PREFIX)
updated_method_suffix(cfg) == value_or(cfg.updated_suffix, DEFAULT_UPDATED_METHOD_SUFFIX)
setter_method_prefix(cfg)  == value_or(cfg.setter_prefix, DEFAULT_SETTER_METHOD_PREFIX)
setter_method_suffix(cfg)  == value_or(cfg.setter_suffix, DEFAULT_SETTER_METHOD_SUFFIX)
update_method_prefix(cfg)  == value_or(cfg.update_prefix, DEFAULT_UPDATE_METHOD_PREFIX)
update_method_suffix(cfg)  == value_or(cfg.update_suffix, DEFAULT_UPDATE_METHOD_SUFFIX)

create_updated_ident(ident, cfg) ==
    create_ident(ident, updated_method_prefix(cfg), updated_method_suffix(cfg))

create_setter_ident(ident, cfg) ==
    create_ident(ident, setter_method_prefix(cfg), setter_method_suffix(cfg))

\* the update name built from the setter's prefix and suffix
create_update_ident_as_setter(ident, cfg) ==
    create_ident(ident, setter_method_prefix(cfg), setter_method_suffix(cfg))

create_update_ident(ident, cfg) ==
    create_ident(ident, update_method_prefix(cfg), update_method_suffix(cfg))

---------------------------------------------------------------------------
(* Fields and their `dynamic` attributes: lib.rs 147-164, 234-264.         *)
(* A field is [name, attr, deps, method]: attr is "none" when the field    *)
(* carries no `dynamic` attribute, "ok" when the attribute parses as       *)
(* ((deps...), method) and "bad" when it does not.                         *)

StoredField(n) == [name |-> n, attr |-> "none", deps |-> <<>>, method |-> ""]
ComputedField(n, ds, m) == [name |-> n, attr |-> "ok", deps |-> ds, method |-> m]
MalformedField(n) == [name |-> n, attr |-> "bad", deps |-> <<>>, method |-> ""]

\* the partition keeping every field on the non-dynamic side
non_dynamic_fields_all(fs) == fs

\* .partition(|(_, dynamic)| dynamic.is_some())
dynamic_fields(fs) == SelectSeq(fs, LAMBDA f : f.attr # "none")
non_dynamic_fields(fs) == SelectSeq(fs, LAMBDA f : f.attr = "none")

FieldNames(fs) == { fs[i].name : i \in DOMAIN fs }

---------------------------------------------------------------------------
(* The dependency relation as the attributes declare it (lib.rs 147-152,   *)
(* 36-39): Y depends on X when X is in the tuple of Y's attribute.         *)

Field(fs, n) == CHOOSE f \in Range(fs) : f.name = n

IsComputed(fs, n) == \E f \in Range(fs) : f.name = n /\ f.attr = "ok"
IsStored(fs, n) == \E f \in Range(fs) : f.name = n /\ f.attr = "none"

\* the fields that list x among their dependencies
Dependents(fs, x) ==
    { f.name : f \in { g \in Range(fs) : g.attr = "ok" /\ x \in Range(g.deps) } }

\* the fields reachable from x along one or more dependent edges
Reach(fs, x) ==
    LET RECURSIVE Grow(_)
        Grow(S) ==
            LET T == S \cup UNION { Dependents(fs, y) : y \in S }
            IN IF T = S THEN S ELSE Grow(T)
    IN Grow(Dependents(fs, x))

HasCycle(fs) == \E n \in FieldNames(fs) : n \in Reach(fs, n)

\* a dependency cycle can be entered from x
CycleReachable(fs, x) == \E y \in {x} \cup Reach(fs, x) : y \in Reach(fs, y)

\* number of distinct dependency paths from x to y (acyclic records)
RECURSIVE NumPaths(_, _, _)
NumPaths(fs, x, y) ==
    IF x = y THEN 1
    ELSE LET RECURSIVE Sum(_)
             Sum(S) == IF S = {} THEN 0
                       ELSE LET z == CHOOSE w \in S : TRUE
                            IN NumPaths(fs, z, y) + Sum(S \ {z})
         IN Sum(Dependents(fs, x))

HasUnknownDependency(fs) ==
    \E f \in Range(fs) : f.attr = "ok" /\ ~(Range(f.deps) \subseteq FieldNames(fs))

---------------------------------------------------------------------------
(* The inverse dependency map: lib.rs 266-285.                             *)
(* HashMap<&Ident, HashSet<&Ident>>: dependency name -> fields it impacts. *)

EmptyMap == [k \in {} |-> {}]

\* inv_map.entry(dependency).and_modify(insert).or_insert_with(from([field_name]))
\* applied only when the key is vacant: a later dependent of a name is lost
InsertDepsFirstOnly(m, deps, field_name) ==
    LET RECURSIVE Go(_, _)
        Go(mm, ds) ==
            IF ds = <<>> THEN mm
            ELSE LET d == Head(ds) IN
                 Go(IF d \in DOMAIN mm THEN mm ELSE mm @@ (d :> {field_name}),
                    Tail(ds))
    IN Go(m, deps)

\* the map filled in the declared direction: field -> its dependencies
InsertDepsForward(m, deps, field_name) ==
    LET RECURSIVE Go(_, _)
        Go(mm, ds) ==
            IF ds = <<>> THEN mm
            ELSE LET d == Head(ds) IN
                 Go(IF field_name \in DOMAIN mm
                       THEN [mm EXCEPT ![field_name] = @ \cup {d}]
                       ELSE mm @@ (field_name :> {d}),
                    Tail(ds))
    IN Go(m, deps)

\* the inner for_each over one dynamic field's dependencies
InsertDeps(m, deps, field_name) ==
    LET RECURSIVE Go(_, _)
        Go(mm, ds) ==
            IF ds = <<>> THEN mm
            ELSE LET d == Head(ds) IN
                 Go(IF d \in DOMAIN mm
                       THEN [mm EXCEPT ![d] = @ \cup {field_name}]
                       ELSE mm @@ (d :> {field_name}),
                    Tail(ds))
    IN Go(m, deps)

\* the outer for_each over dynamic_fields
RECURSIVE BuildInvMap(_, _)
BuildInvMap(m, dyn) ==
    IF dyn = <<>> THEN m
    ELSE BuildInvMap(InsertDeps(m, Head(dyn).deps, Head(dyn).name), Tail(dyn))

inv_map(fs) == BuildInvMap(EmptyMap, dynamic_fields(fs))

\* inv_map.remove(field_name).unwrap_or_default()
Impacts(m, field_name) == IF field_name \in DOMAIN m THEN m[field_name] ELSE {}

\* what is left of the map when `name` has been removed
Removed(m, name) == [k \in (DOMAIN m) \ {name} |-> m[k]]

\* The HashSet's into_iter() order is not determined by the program: one
\* order per field, any permutation of its impacted set.
IterOrders(fs) ==
    LET m == inv_map(fs)
        all == UNION { Orders(Impacts(m, fs[i].name)) : i \in DOMAIN fs }
    IN { it \in [DOMAIN fs -> all] :
            \A i \in DOMAIN fs : it[i] \in Orders(Impacts(m, fs[i].name)) }

---------------------------------------------------------------------------
(* The generated methods: lib.rs 287-351.                                  *)
(* A method is [kind, field, name, body]; a body is a sequence of          *)
(* statements [t, x]: "assign" self.x = value, "proc" self.x() of the      *)
(* user's compute method x, "call" self.x() of a generated method x.       *)

Assign(field_name) == [t |-> "assign", x |-> field_name]
Proc(callable_name) == [t |-> "proc", x |-> callable_name]
Call(func_name) == [t |-> "call", x |-> func_name]

\* pub fn #func_name(&mut self) { #( self.#deps(); )* }
updated_method(field, deps_iter, cfg) ==
    [ kind  |-> "notify",
      field |-> field.name,
      name  |-> create_updated_ident(field.name, cfg),
      body  |-> [ i \in 1..Len(deps_iter) |->
                    Call(create_update_ident(deps_iter[i], cfg)) ] ]

\* fields.iter().map(...), each field consuming its entry of inv_map
RECURSIVE updated_methods(_, _, _, _, _)
updated_methods(fs, i, m, cfg, iter) ==
    IF i > Len(fs) THEN <<>>
    ELSE LET deps_iter == SelectSeq(iter[i],
                              LAMBDA n : n \in Impacts(m, fs[i].name))
         IN <<updated_method(fs[i], deps_iter, cfg)>>
            \o updated_methods(fs, i + 1, Removed(m, fs[i].name), cfg, iter)

\* the setter with its two statements swapped
setter_method_notify_first(field, cfg) ==
    [ kind  |-> "setter",
      field |-> field.name,
      name  |-> create_setter_ident(field.name, cfg),
      body  |-> << Call(create_updated_ident(field.name, cfg)),
                   Assign(field.name) >> ]

\* pub fn #func_name(&mut self, value: #typ)
\*   { self.#field_name = value; self.#updated_func_name(); }
setter_method(field, cfg) ==
    [ kind  |-> "setter",
      field |-> field.name,
      name  |-> create_setter_ident(field.name, cfg),
      body  |-> << Assign(field.name),
                   Call(create_updated_ident(field.name, cfg)) >> ]

\* the trigger without its change notification
update_method_no_notify(field, cfg) ==
    [ kind  |-> "trigger",
      field |-> field.name,
      name  |-> create_update_ident(field.name, cfg),
      body  |-> << Proc(field.method) >> ]

\* the trigger calling func_name where updated_func_name was meant
update_method_calls_itself(field, cfg) ==
    [ kind  |-> "trigger",
      field |-> field.name,
      name  |-> create_update_ident(field.name, cfg),
      body  |-> << Proc(field.method),
                   Call(create_update_ident(field.name, cfg)) >> ]

\* pub fn #func_name(&mut self)
\*   { self.#callable_name(); self.#updated_func_name(); }
update_method(field, cfg) ==
    [ kind  |-> "trigger",
      field |-> field.name,
      name  |-> create_update_ident(field.name, cfg),
      body  |-> << Proc(field.method),
                   Call(create_updated_ident(field.name, cfg)) >> ]

setter_methods(fs, cfg) ==
    LET nd == non_dynamic_fields(fs)
    IN [ i \in 1..Len(nd) |-> setter_method(nd[i], cfg) ]

update_methods(fs, cfg) ==
    LET dyn == dynamic_fields(fs)
    IN [ i \in 1..Len(dyn) |-> update_method(dyn[i], cfg) ]

Panic(message) == [status |-> "panic", msg |-> message, ops |-> <<>>]
Expanded(methods_out) == [status |-> "ok", msg |-> "", ops |-> methods_out]
NotExpanded == [status |-> "none", msg |-> "", ops |-> <<>>]

\* impl #ident { #(#updated_methods)* #(#setter_methods)* #(#update_methods)* }
Output(fs, cfg, iter) ==
    Expanded(updated_methods(fs, 1, inv_map(fs), cfg, iter)
             \o setter_methods(fs, cfg)
             \o update_methods(fs, cfg))

\* the macro with a cycle check in front of the expansion
derive_dynamic_rejects_cycles(sh, fs, cfg, iter) ==
    IF sh # "named" \/ (\E i \in DOMAIN fs : fs[i].attr = "bad")
        THEN Panic("Only structs with named fields currently supported!")
    ELSE IF HasCycle(fs) THEN Panic("Cyclic dependencies")
    ELSE Output(fs, cfg, iter)

\* the whole macro, for one iteration order `iter` of the impacted sets
derive_dynamic(sh, fs, cfg, iter) ==
    IF sh \notin {"named", "tuple", "unit"}
        THEN Panic("Only structs currently supported!")
    ELSE IF sh # "named"
        THEN Panic("Only structs with named fields currently supported!")
    ELSE IF \E i \in DOMAIN fs : fs[i].attr = "bad"
        THEN Panic("Dynamic attribute format is invalid")
    ELSE Output(fs, cfg, iter)

---------------------------------------------------------------------------
(* The user's compute methods (lib.rs 29-33, 41; demo.rs 26-34): each      *)
(* `fn name(&mut self)` writes its own field from the fields it declares   *)
(* as dependencies: weight * (sum of the declared dependencies).           *)

MethodsFor(fs, w) ==
    [ m \in { f.method : f \in { g \in Range(fs) : g.attr = "ok" } } |->
        LET f == CHOOSE g \in Range(fs) : g.attr = "ok" /\ g.method = m
        IN [ target |-> f.name,
             reads  |-> Range(f.deps) \cap FieldNames(fs),
             weight |-> w[f.name] ] ]

\* the value the compute method m stores, given the record's values v
Compute(m, v) == m.weight * SumOver(m.reads, v)

---------------------------------------------------------------------------
(* Running the generated code. *)

\* rustc accepts the impl block: no two methods of one name (lib.rs 339-351)
Compiles(g) ==
    /\ g.status = "ok"
    /\ \A i, j \in DOMAIN g.ops : g.ops[i].name = g.ops[j].name => i = j

\* method resolution of self.name()
Lookup(name) == CHOOSE k \in DOMAIN gen.ops : gen.ops[k].name = name

Frame(k, v) == [op |-> k, pc |-> 1, arg |-> v, wrote |-> FALSE]

Top == stack[Len(stack)]
TopBody == gen.ops[Top.op].body
AtStatement(kind) ==
    /\ stack # <<>>
    /\ ~crashed
    /\ Top.pc <= Len(TopBody)
    /\ TopBody[Top.pc].t = kind

Idle == phase = "expanded" /\ stack = <<>> /\ ~crashed

ZeroRuns == [n \in FieldNames(fields) |-> 0]

\* macro expansion at build time
Derive ==
    /\ phase = "input"
    /\ \E iter \in IterOrders(fields) :
          gen' = derive_dynamic(shape, fields, config, iter)
    /\ phase' = "expanded"
    /\ UNCHANGED <<shape, fields, config, methods, val, stack, runs, hist,
                   budget, argvals, crashed>>

\* the driver calls a generated setter: record.<setter name>(v)
CallSetter ==
    /\ Idle /\ Compiles(gen) /\ budget > 0
    /\ \E k \in DOMAIN gen.ops, v \in argvals :
          /\ gen.ops[k].kind = "setter"
          /\ stack' = <<Frame(k, v)>>
          /\ hist' = Append(hist, [kind |-> "setter", field |-> gen.ops[k].field,
                                   arg |-> v])
    /\ runs' = ZeroRuns
    /\ budget' = budget - 1
    /\ UNCHANGED <<shape, fields, config, methods, phase, gen, val, argvals, crashed>>

\* the driver calls a generated trigger: record.<update name>()
CallTrigger ==
    /\ Idle /\ Compiles(gen) /\ budget > 0
    /\ \E k \in DOMAIN gen.ops :
          /\ gen.ops[k].kind = "trigger"
          /\ stack' = <<Frame(k, 0)>>
          /\ hist' = Append(hist, [kind |-> "trigger", field |-> gen.ops[k].field,
                                   arg |-> 0])
    /\ runs' = ZeroRuns
    /\ budget' = budget - 1
    /\ UNCHANGED <<shape, fields, config, methods, phase, gen, val, argvals, crashed>>

\* self.#field_name = value;
ExecAssign ==
    /\ AtStatement("assign")
    /\ val' = [val EXCEPT ![TopBody[Top.pc].x] = Top.arg]
    /\ stack' = [stack EXCEPT ![Len(stack)].pc = @ + 1,
                              ![Len(stack)].wrote = TRUE]
    /\ UNCHANGED <<shape, fields, config, methods, phase, gen, runs, hist,
                   budget, argvals, crashed>>

\* self.#callable_name();
ExecProc ==
    /\ AtStatement("proc")
    /\ LET m == methods[TopBody[Top.pc].x]
           v == Compute(m, val)
       IN /\ val' = [val EXCEPT ![m.target] = v]
          /\ runs' = [runs EXCEPT ![m.target] = @ + 1]
          /\ stack' = [stack EXCEPT ![Len(stack)].pc = @ + 1,
                                    ![Len(stack)].arg = v,
                                    ![Len(stack)].wrote = TRUE]
    /\ UNCHANGED <<shape, fields, config, methods, phase, gen, hist, budget,
                   argvals, crashed>>

\* self.#updated_func_name();  or  self.#deps();
ExecCall ==
    /\ AtStatement("call")
    /\ Len(stack) < MaxDepth
    /\ stack' = Append([stack EXCEPT ![Len(stack)].pc = @ + 1],
                       Frame(Lookup(TopBody[Top.pc].x), 0))
    /\ UNCHANGED <<shape, fields, config, methods, phase, gen, val, runs, hist,
                   budget, argvals, crashed>>

\* a call with no stack left: the process is killed, nothing returns
StackOverflow ==
    /\ AtStatement("call")
    /\ Len(stack) >= MaxDepth
    /\ crashed' = TRUE
    /\ UNCHANGED <<shape, fields, config, methods, phase, gen, val, stack, runs,
                   hist, budget, argvals>>

\* end of a method body
Return ==
    /\ stack # <<>>
    /\ ~crashed
    /\ Top.pc > Len(TopBody)
    /\ stack' = SubSeq(stack, 1, Len(stack) - 1)
    /\ UNCHANGED <<shape, fields, config, methods, phase, gen, val, runs, hist,
                   budget, argvals, crashed>>

Step == ExecAssign \/ ExecProc \/ ExecCall \/ StackOverflow \/ Return

---------------------------------------------------------------------------
(* Inputs. *)

\* #[dynamic(setter_prefix = "set_", setter_suffix = "_value")]  (demo.rs 4)
DemoConfig ==
    [ DefaultConfig EXCEPT !.setter_prefix = Some("set_"),
                           !.setter_suffix = Some("_value") ]

\* struct-level attributes: each prefix unset or "set_", each suffix unset or "_value"
ConfigPool ==
    [ updated_prefix : {None, Some("set_")}, updated_suffix : {None, Some("_value")},
      setter_prefix  : {None, Some("set_")}, setter_suffix  : {None, Some("_value")},
      update_prefix  : {None, Some("set_")}, update_suffix  : {None, Some("_value")} ]

\* a struct literal: the i-th field holds i
InitialVal(fs) ==
    [ n \in FieldNames(fs) |-> CHOOSE i \in DOMAIN fs : fs[i].name = n ]

UnitWeights(fs) == [ n \in FieldNames(fs) |-> 1 ]

\* names a dependency tuple may mention: fields of the record, and "z", which is none
DepNames == {"a", "b", "z"}

\* one declaration of field n: plain, malformed attribute, or dynamic
FieldChoices(n) ==
    {StoredField(n), MalformedField(n)}
    \cup { ComputedField(n, ds, "calc_" \o n) : ds \in SeqsUpTo(DepNames, MaxDeps) }

\* one declaration of field n with at most one dependency
ShortChoices(n) ==
    {StoredField(n), MalformedField(n)}
    \cup { ComputedField(n, ds, "calc_" \o n) : ds \in SeqsUpTo(DepNames, 1) }

\* structs a, b, c: a and b declared in every way, c with at most one dependency
StructFamily ==
    { <<fa, fb, fc>> : fa \in FieldChoices("a"), fb \in FieldChoices("b"),
                       fc \in ShortChoices("c") }

\* field names that share text with the default prefixes
NamePool == {"a", "d_a", "_a", "d"}

\* structs of three distinctly named fields, each plain or depending on the first
NameFamily ==
    { [ i \in 1..3 |->
          IF k[i] THEN ComputedField(ns[i], <<ns[1]>>, "calc_" \o ns[i])
          ELSE StoredField(ns[i]) ] :
      ns \in { s \in [1..3 -> NamePool] : \A i, j \in 1..3 : s[i] = s[j] => i = j },
      k \in [1..3 -> BOOLEAN] }

\* a dependency tuple listing the names of S once each
SetToSeq(S) == CHOOSE s \in Orders(S) : TRUE

\* one declaration of field n over the names N: plain, or dynamic on at most
\* MaxDeps distinct names of N
RunChoices(n, N) ==
    {StoredField(n)}
    \cup { ComputedField(n, SetToSeq(S), "calc_" \o n) :
             S \in { T \in SUBSET N : Cardinality(T) <= MaxDeps } }

RunFamily ==
    LET N == {"a", "b", "c"}
    IN { <<fa, fb, fc>> : fa \in RunChoices("a", N), fb \in RunChoices("b", N),
                          fc \in RunChoices("c", N) }

\* b and d depend on a, c depends on b and d
Diamond ==
    << StoredField("a"),
       ComputedField("b", <<"a">>, "calc_b"),
       ComputedField("d", <<"a">>, "calc_d"),
       ComputedField("c", <<"b", "d">>, "calc_c") >>

\* struct Demo (demo.rs 3-12)
Demo ==
    << StoredField("a"),
       StoredField("b"),
       ComputedField("c", <<"a", "b">>, "calc_c"),
       ComputedField("d", <<"c">>, "calc_d") >>

\* calc_c: c = a + b; calc_d: d = c + c (demo.rs 26-34)
DemoWeights == [ n \in FieldNames(Demo) |-> IF n = "d" THEN 2 ELSE 1 ]

\* Demo::new(a, b) (demo.rs 15-24)
DemoNew(a, b) ==
    LET ms == MethodsFor(Demo, DemoWeights)
        v0 == [ n \in FieldNames(Demo) |-> IF n = "a" THEN a ELSE IF n = "b" THEN b ELSE 0 ]
        v1 == [ v0 EXCEPT !["c"] = Compute(ms["calc_c"], v0) ]
    IN [ v1 EXCEPT !["d"] = Compute(ms["calc_d"], v1) ]

\* root calls main makes on the Demo instance (demo.rs 46, 53, 55)
DemoCalls == 3

NotRun ==
    /\ phase = "input"
    /\ gen = NotExpanded
    /\ stack = <<>>
    /\ hist = <<>>
    /\ crashed = FALSE
    /\ runs = ZeroRuns

\* build-time inputs: declarations of every form, under the default and the demo naming
InitStruct ==
    /\ \/ shape = "named" /\ fields \in StructFamily
       \/ shape \in {"tuple", "unit", "enum", "union"} /\ fields = <<>>
    /\ config \in {DefaultConfig, DemoConfig}
    /\ methods = MethodsFor(fields, UnitWeights(fields))
    /\ val = InitialVal(fields)
    /\ budget = 0
    /\ argvals = {}
    /\ NotRun

\* build-time inputs: field names and naming attributes of every form
InitNames ==
    /\ shape = "named"
    /\ fields \in NameFamily
    /\ config \in ConfigPool
    /\ methods = MethodsFor(fields, UnitWeights(fields))
    /\ val = InitialVal(fields)
    /\ budget = 0
    /\ argvals = {}
    /\ NotRun

\* records that are expanded and then driven
InitFamily ==
    /\ shape = "named"
    /\ fields \in RunFamily \cup {Diamond}
    /\ config = DefaultConfig
    /\ methods = MethodsFor(fields, UnitWeights(fields))
    /\ val = InitialVal(fields)
    /\ budget = MaxCalls
    /\ argvals = {4}
    /\ NotRun

\* the example program: Demo::new(1, 2), then setters with 4 and 9
InitDemo ==
    /\ shape = "named"
    /\ fields = Demo
    /\ config = DemoConfig
    /\ methods = MethodsFor(Demo, DemoWeights)
    /\ val = DemoNew(1, 2)
    /\ budget = DemoCalls
    /\ argvals = {4, 9}
    /\ NotRun

InitGen == InitStruct \/ InitNames

Init == InitFamily \/ InitDemo

NextGen == Derive

Next ==
    \/ Derive
    \/ CallSetter
    \/ CallTrigger
    \/ ExecAssign
    \/ ExecProc
    \/ ExecCall
    \/ StackOverflow
    \/ Return

\* macro expansion only
SpecGen == InitGen /\ [][NextGen]_vars

\* macro expansion, then the generated code driven by a program
Spec == Init /\ [][Next]_vars

\* the generated methods are straight-line synchronous code: a started call
\* keeps executing until it returns or the process dies
SpecFair == Spec /\ WF_vars(Step)

---------------------------------------------------------------------------
(* Properties. *)

ExpandedOk == phase = "expanded" /\ gen.status = "ok"

\* the struct is one the macro does not panic on
WellFormedInput ==
    shape = "named" /\ \A i \in DOMAIN fields : fields[i].attr # "bad"

OpsOf(kind, n) ==
    { k \in DOMAIN gen.ops : gen.ops[k].kind = kind /\ gen.ops[k].field = n }

NameOf(kind, n) == gen.ops[CHOOSE k \in OpsOf(kind, n) : TRUE].name

Root == hist[Len(hist)]
Returned == Idle /\ hist # <<>>
SetterCall(n, v) == [kind |-> "setter", field |-> n, arg |-> v]

\* one notify per field, one trigger per dynamic field, one setter per plain
\* field, and no method of another kind or of another field
OperationSetAsRules ==
    /\ \A n \in FieldNames(fields) :
          /\ Cardinality(OpsOf("notify", n)) = 1
          /\ Cardinality(OpsOf("trigger", n)) = IF IsComputed(fields, n) THEN 1 ELSE 0
          /\ Cardinality(OpsOf("setter", n)) = IF IsStored(fields, n) THEN 1 ELSE 0
    /\ \A k \in DOMAIN gen.ops :
          /\ gen.ops[k].kind \in {"notify", "trigger", "setter"}
          /\ gen.ops[k].field \in FieldNames(fields)

\* notify(X) calls the trigger of each field that lists X, once, and nothing else
NotifyBodiesAsRules ==
    \A n \in FieldNames(fields) :
       /\ OpsOf("notify", n) # {}
       /\ \A k \in OpsOf("notify", n) :
             LET body == gen.ops[k].body IN
             /\ Len(body) = Cardinality(Dependents(fields, n))
             /\ \A i \in DOMAIN body : body[i].t = "call"
             /\ { body[i].x : i \in DOMAIN body }
                   = { NameOf("trigger", y) : y \in Dependents(fields, n) }
             /\ Compiles(gen) =>
                  \A i \in DOMAIN body : \A j \in DOMAIN gen.ops :
                     gen.ops[j].name = body[i].x => gen.ops[j].kind = "trigger"

\* setter(X) is: assign X, call notify(X); trigger(X) is: run X's method, call notify(X)
TwoStepBodiesAsRules ==
    \A k \in DOMAIN gen.ops :
       LET op == gen.ops[k] IN
       /\ op.kind = "setter" =>
             op.body = << Assign(op.field), Call(NameOf("notify", op.field)) >>
       /\ op.kind = "trigger" =>
             op.body = << Proc(Field(fields, op.field).method),
                          Call(NameOf("notify", op.field)) >>

\* C1: on an acyclic record, when a setter(X, v) has returned, X holds v and
\* every field that transitively depends on X equals its compute method applied
\* to the current values, whatever the iteration orders were; in the Demo
\* record started at a=1, b=2: c=6, d=12 after setter(a,4), and c=13, d=26
\* after setter(a,4), setter(a,4), setter(b,9).
C1_Consistency ==
    /\ (Returned /\ Root.kind = "setter" /\ ~HasCycle(fields)) =>
          /\ val[Root.field] = Root.arg
          /\ \A y \in Reach(fields, Root.field) :
                val[y] = Compute(methods[Field(fields, y).method], val)
    /\ (fields = Demo /\ Idle /\ hist = <<SetterCall("a", 4)>>) =>
          val["c"] = 6 /\ val["d"] = 12
    /\ (fields = Demo /\ Idle /\ hist = <<SetterCall("a", 4), SetterCall("a", 4),
                                          SetterCall("b", 9)>>) =>
          val["c"] = 13 /\ val["d"] = 26

C1_Witness ==
    /\ fields = Demo /\ Idle
    /\ hist = <<SetterCall("a", 4), SetterCall("a", 4), SetterCall("b", 9)>>
    /\ val["d"] = 26

\* C2: a struct in which a dynamic field names a dependency that is no field
\* of the struct is rejected by the macro, and no method is emitted.
C2_UnknownDependencyRejected ==
    (phase = "expanded" /\ HasUnknownDependency(fields)) =>
        (gen.status = "panic" /\ gen.ops = <<>>)

\* C3: for every struct the macro accepts, the emitted methods are exactly
\* one notify per field, one trigger per dynamic field and one setter per
\* plain field.
C3_OperationSet == ExpandedOk => OperationSetAsRules

C3_Witness ==
    /\ ExpandedOk
    /\ \E n \in FieldNames(fields) : IsStored(fields, n)
    /\ \E n \in FieldNames(fields) : IsComputed(fields, n)

\* C4: a setter is exactly "assign, then notify" and a trigger exactly
\* "compute, then notify"; at run time the frame above a setter or trigger of
\* X is notify(X), entered only after the write, and at the moment notify(X)
\* has invoked a trigger, X holds the value its setter or trigger wrote.
C4_WriteBeforeNotify ==
    /\ ExpandedOk => TwoStepBodiesAsRules
    /\ \A i \in 1..Len(stack) :
          (i < Len(stack) /\ gen.ops[stack[i].op].kind \in {"setter", "trigger"}) =>
             /\ gen.ops[stack[i + 1].op].kind = "notify"
             /\ gen.ops[stack[i + 1].op].field = gen.ops[stack[i].op].field
             /\ stack[i].wrote
             /\ (/\ i + 2 = Len(stack)
                 /\ gen.ops[stack[i + 2].op].kind = "trigger"
                 /\ stack[i + 2].pc = 1)
                  => val[gen.ops[stack[i].op].field] = stack[i].arg

C4_Witness ==
    /\ Len(stack) >= 3
    /\ ~crashed
    /\ gen.ops[stack[Len(stack) - 2].op].kind = "trigger"
    /\ gen.ops[stack[Len(stack)].op].kind = "trigger"
    /\ stack[Len(stack)].pc = 1

\* C5: when a setter(A) has returned on an acyclic record, the compute method
\* of every dynamic field C has run once per distinct dependency path from A
\* to C; in the diamond, C's method ran twice and B's and D's once each.
C5_RunsPerPath ==
    /\ (Returned /\ Root.kind = "setter" /\ ~HasCycle(fields)) =>
          \A c \in FieldNames(fields) :
             runs[c] = IF IsComputed(fields, c)
                          THEN NumPaths(fields, Root.field, c) ELSE 0
    /\ (fields = Diamond /\ Returned /\ Root.kind = "setter") =>
          runs["c"] = 2 /\ runs["b"] = 1 /\ runs["d"] = 1

C5_Witness ==
    /\ fields = Diamond /\ Returned /\ Root.kind = "setter"
    /\ runs["c"] = 2

\* the name the naming attribute prescribes for a method of `kind` on field n
PrescribedName(kind, n) ==
    IF kind = "notify" THEN
        (IF config.updated_prefix = None THEN "updated_" ELSE config.updated_prefix[1])
        \o n \o
        (IF config.updated_suffix = None THEN "" ELSE config.updated_suffix[1])
    ELSE IF kind = "trigger" THEN
        (IF config.update_prefix = None THEN "update_" ELSE config.update_prefix[1])
        \o n \o
        (IF config.update_suffix = None THEN "" ELSE config.update_suffix[1])
    ELSE
        (IF config.setter_prefix = None THEN "update_" ELSE config.setter_prefix[1])
        \o n \o
        (IF config.setter_suffix = None THEN "" ELSE config.setter_suffix[1])

OnlySetterOverridden ==
    /\ config.updated_prefix = None /\ config.updated_suffix = None
    /\ config.update_prefix = None /\ config.update_suffix = None

\* C6: every generated name is prefix + field name + suffix, the override of
\* its kind when set and the default otherwise; when only the setter prefix
\* and suffix are overridden, notify and trigger names and every name a body
\* calls are the default ones.
C6_Naming ==
    ExpandedOk =>
       /\ \A k \in DOMAIN gen.ops :
             gen.ops[k].name = PrescribedName(gen.ops[k].kind, gen.ops[k].field)
       /\ OnlySetterOverridden =>
             \A k \in DOMAIN gen.ops :
                LET op == gen.ops[k] IN
                /\ op.kind = "notify" =>
                      /\ op.name = "updated_" \o op.field
                      /\ \A i \in DOMAIN op.body :
                            \E y \in FieldNames(fields) :
                               IsComputed(fields, y) /\ op.body[i].x = "update_" \o y
                /\ op.kind = "trigger" =>
                      /\ op.name = "update_" \o op.field
                      /\ op.body[2].x = "updated_" \o op.field
                /\ op.kind = "setter" => op.body[2].x = "updated_" \o op.field

C6_Witness ==
    /\ ExpandedOk
    /\ config = DemoConfig
    /\ \E k \in DOMAIN gen.ops :
          gen.ops[k].kind = "setter" /\ gen.ops[k].name = "set_a_value"
    /\ \E k \in DOMAIN gen.ops :
          gen.ops[k].kind = "notify" /\ gen.ops[k].body # <<>>

\* C7: a struct whose dependencies contain a cycle (a self-dependency
\* included) is expanded without error, into the methods and bodies the
\* per-field rules give.
C7_CycleAccepted ==
    (phase = "expanded" /\ WellFormedInput /\ HasCycle(fields)) =>
       /\ gen.status = "ok"
       /\ OperationSetAsRules
       /\ NotifyBodiesAsRules
       /\ TwoStepBodiesAsRules

C7_Witness ==
    /\ ExpandedOk
    /\ \E f \in Range(fields) : f.attr = "ok" /\ f.name \in Range(f.deps)
    /\ \E f, g \in Range(fields) :
          /\ f.name # g.name /\ f.attr = "ok" /\ g.attr = "ok"
          /\ f.name \in Range(g.deps) /\ g.name \in Range(f.deps)

\* C8: notify(X) exists for every field X and its body is one call of
\* trigger(Y) for each field Y that lists X among its dependencies, however
\* often Y lists it, and no other statement; with no such Y the body is empty.
C8_NotifyBody == ExpandedOk => NotifyBodiesAsRules

C8_Witness ==
    /\ ExpandedOk
    /\ \E f \in Range(fields) :
          /\ f.attr = "ok" /\ Len(f.deps) = 2 /\ f.deps[1] = f.deps[2]
          /\ f.deps[1] \in FieldNames(fields)
          /\ Cardinality(Dependents(fields, f.deps[1])) = 2
    /\ \E n \in FieldNames(fields) :
          Dependents(fields, n) = {} /\ gen.ops[CHOOSE k \in OpsOf("notify", n) : TRUE].body = <<>>

\* C9: under the default naming, the generated names of a struct are
\* pairwise distinct.
C9_DistinctNames ==
    (ExpandedOk /\ config = DefaultConfig) =>
       \A i, j \in DOMAIN gen.ops : i # j => gen.ops[i].name # gen.ops[j].name

C9_Witness ==
    /\ ExpandedOk /\ config = DefaultConfig
    /\ IsStored(fields, "a") /\ IsComputed(fields, "d_a") /\ IsStored(fields, "d")

\* C10: a started root call on field A returns when no dependency cycle can
\* be entered from A, and never returns when one can.
C10_Termination ==
    /\ [](((stack # <<>>) /\ ~CycleReachable(fields, Root.field)) => <>(stack = <<>>))
    /\ [][ ((stack # <<>>) /\ CycleReachable(fields, Root.field)) => (stack' # <<>>) ]_vars

C10_Witness ==
    /\ crashed
    /\ Len(stack) = MaxDepth
    /\ Root.kind = "setter"
    /\ CycleReachable(fields, Root.field)

====
